---------------------------- MODULE Spec2Model ----------------------------
(***************************************************************************)
(* A model of fairlearn's Moment life cycle                                *)
(* (src/fairlearn/reductions/_moments/moment.py) and of the construction   *)
(* of a GroupFeature (src/fairlearn/metrics/_group_feature.py).            *)
(*                                                                         *)
(* Python values are tagged records: the field t names the Python type.    *)
(* A Python string is the sequence of its characters, so that formatting   *)
(* and concatenation are computed and not assumed.  A narwhals object is a *)
(* wrapper record around the native (pandas) object it was made from, so   *)
(* that from_native and to_native are conversions and not the identity.    *)
(***************************************************************************)
EXTENDS Integers, Sequences, FiniteSets, TLC

(***************************************************************************)
(* Bounds of the model.                                                    *)
(***************************************************************************)
\* longest feature table, label vector or sensitive-feature vector
MaxLen == 2
\* largest index handed to GroupFeature
MaxIndex == 10

(***************************************************************************)
(* Python values.                                                          *)
(***************************************************************************)
PyNone == [t |-> "None"]
PyStr(chars) == [t |-> "str", v |-> chars]
PyInt(n) == [t |-> "int", v |-> n]
PyBool(b) == [t |-> "bool", v |-> b]
\* an attribute that was never assigned on the instance
Absent == [t |-> "absent"]

_GROUP_ID == <<"g", "r", "o", "u", "p", "_", "i", "d">>
_LABEL == <<"l", "a", "b", "e", "l">>

PdSeries(name, data) == [t |-> "pd.Series", name |-> name, data |-> data]
PdDataFrame(columns, data) == [t |-> "pd.DataFrame", columns |-> columns, data |-> data]
NdArray(data) == [t |-> "ndarray", data |-> data]
NwSeries(native) == [t |-> "nw.Series", native |-> native]
NwDataFrame(native) == [t |-> "nw.DataFrame", native |-> native]

\* a raised exception, as the result of an expression
Raise(exc) == [t |-> "raise", exc |-> exc]
Raised(r) == r.t = "raise"

(***************************************************************************)
(* The narwhals operations load_data and _to_native_everything use.        *)
(***************************************************************************)
\* nw.from_native(obj, strict=..., allow_series=..., series_only=...)
FromNative(obj, strict, allow_series, series_only) ==
    IF obj.t \in {"nw.Series", "nw.DataFrame"} THEN obj
    ELSE IF obj.t = "pd.Series" /\ (allow_series \/ series_only) THEN NwSeries(obj)
    ELSE IF obj.t = "pd.DataFrame" /\ ~series_only THEN NwDataFrame(obj)
    ELSE IF strict THEN Raise("TypeError")
    ELSE obj

\* nw.to_native(obj, strict=False)
ToNative(obj) ==
    IF obj.t \in {"nw.Series", "nw.DataFrame"} THEN obj.native ELSE obj

\* Series.alias(name); only a narwhals Series has the method
Alias(s, name) ==
    IF s.t = "nw.Series"
    THEN NwSeries(PdSeries(PyStr(name), s.native.data))
    ELSE Raise("AttributeError")

\* Series.to_frame(): a one-column frame named after the series
ToFrame(s) ==
    IF Raised(s) THEN s
    ELSE NwDataFrame(PdDataFrame(<<s.native.name.v>>, <<s.native.data>>))

\* number of rows of a native frame
NativeRows(df) == Len(df.data[1])

\* with_columns attaching the column in reverse order
WithColumnsReversed(df, s) ==
    LET n == NativeRows(df.native)
        col == s.native.data
    IN  IF Len(col) = n
        THEN {NwDataFrame(PdDataFrame(Append(df.native.columns, s.native.name.v),
                                      Append(df.native.data, [i \in 1..n |-> col[n + 1 - i]])))}
        ELSE {Raise("ShapeError")}

\* DataFrame.with_columns(series): the outcomes the installed backend can
\* produce.  A column of the frame's length is appended by position; a
\* column of any other length is refused, except that a one-element column
\* is broadcast over the rows by the backends that broadcast.
WithColumns(df, s) ==
    LET n == NativeRows(df.native)
        col == s.native.data
        put(c) == NwDataFrame(PdDataFrame(Append(df.native.columns, s.native.name.v),
                                         Append(df.native.data, c)))
    IN  IF Len(col) = n THEN {put(col)}
        ELSE IF Len(col) = 1 THEN {put([i \in 1..n |-> col[1]]), Raise("ShapeError")}
        ELSE {Raise("ShapeError")}

\* obj.shape[1] read in place of obj.shape[0]
Shape1(obj) ==
    IF obj.t = "nw.DataFrame" THEN Len(obj.native.columns)
    ELSE IF obj.t = "pd.DataFrame" THEN Len(obj.columns)
    ELSE 1

\* obj.shape[0]
Shape0(obj) ==
    IF obj.t = "nw.DataFrame" THEN NativeRows(obj.native)
    ELSE IF obj.t = "pd.DataFrame" THEN NativeRows(obj)
    ELSE IF obj.t = "ndarray" THEN Len(obj.data)
    ELSE IF obj.t \in {"nw.Series", "pd.Series"} THEN Len(ToNative(obj).data)
    ELSE -1

(***************************************************************************)
(* The state of one Moment instance, and what its caller last saw.         *)
(***************************************************************************)
VARIABLES
    cls,            \* the class of the instance
    reduction_loss, \* LossMoment.reduction_loss (Absent on the other classes)
    data_loaded,    \* self.data_loaded
    X,              \* self.X
    _y,             \* self._y
    tags,           \* self.tags
    _gamma_descr,   \* self._gamma_descr
    ret,            \* the last call on the instance: its name, what it raised, what it returned
    loaded_from,    \* the arguments of the load_data call that returned normally
    \* one GroupFeature instance
    gf_args,        \* the arguments its constructor was called with
    raw_feature_,   \* self.raw_feature_
    classes_,       \* self.classes_
    name_,          \* self.name_
    gf_ret          \* how the constructor ended

moment_vars == <<cls, reduction_loss, data_loaded, X, _y, tags, _gamma_descr, ret, loaded_from>>
gf_vars == <<gf_args, raw_feature_, classes_, name_, gf_ret>>
vars == <<moment_vars, gf_vars>>

\* the attributes of the instance
attrs == <<cls, reduction_loss, data_loaded, X, _y, tags, _gamma_descr>>

NoValue == [t |-> "nothing"]
Call(op, exc, value) == [op |-> op, exc |-> exc, value |-> value]
NoCall == Call("__init__", "none", NoValue)

(***************************************************************************)
(* The arguments a caller hands in.                                        *)
(***************************************************************************)
XVals == {0}
Labels == {0, 1}
Groups == {"a", "b"}
Losses == {"square_loss"}
Classes == {"Moment", "ClassificationMoment", "LossMoment"}
Predictors == {"h0", "h1"}
LambdaVecs == {<<0>>, <<1>>}
F0 == <<"f", "0">>

SeqsUpTo(S, n) == UNION {[1..k -> S] : k \in 1..n}

\* A feature table is a one-column pandas frame of 1..MaxLen rows, or a numpy
\* array of MaxLen rows.  Only its row count and its type are read by
\* load_data and total_samples.
FeatureInputs ==
    {PdDataFrame(<<F0>>, <<d>>) : d \in SeqsUpTo(XVals, MaxLen)}
        \cup {NdArray([i \in 1..MaxLen |-> 0])}
\* A label vector is a pandas Series, or a numpy array.  load_data reads
\* neither the elements nor the length of an array (it is not a Series, and
\* narwhals hands it back as it came), so one array stands for all of them.
LabelInputs ==
    {PdSeries(PyNone, d) : d \in SeqsUpTo(Labels, MaxLen)} \cup {NdArray(<<0>>)}
\* The sensitive features are absent (None), a pandas Series, or a numpy array.
SensitiveInputs ==
    {PyNone} \cup {PdSeries(PyNone, d) : d \in SeqsUpTo(Groups, MaxLen)}
             \cup {NdArray(<<"a">>)}

(***************************************************************************)
(* Moment.__init__, ClassificationMoment (inherits it), LossMoment.__init__ *)
(***************************************************************************)
InitDataLoaded == FALSE

MomentInit ==
    /\ cls \in Classes
    /\ reduction_loss \in (IF cls = "LossMoment" THEN Losses ELSE {Absent})
    /\ data_loaded = InitDataLoaded
    /\ X = Absent
    /\ _y = Absent
    /\ tags = Absent
    /\ _gamma_descr = Absent
    /\ ret = NoCall
    /\ loaded_from = Absent

(***************************************************************************)
(* Moment.load_data                                                        *)
(***************************************************************************)
\* the assertion left out
LoadAlwaysAllowed == TRUE

\* assert self.data_loaded is False, "data can be loaded only once"
LoadAllowed == data_loaded = FALSE

\* lines 49-52: the sensitive features as a narwhals Series, or the TypeError
SensitiveNormalised(sf) ==
    IF sf # PyNone THEN FromNative(sf, TRUE, FALSE, TRUE) ELSE sf

\* line 55: self._y.alias(_LABEL).to_frame()
LabelFrame(y) == ToFrame(Alias(y, _LABEL))

\* line 58: the outcomes of self.tags.with_columns(sensitive_features.alias(_GROUP_ID))
TagsWithGroup(frame, sf) == WithColumns(frame, Alias(sf, _GROUP_ID))

\* lines 57-58: the tags table once the sensitive features, if any, are attached
TagOutcomesNoGroup(frame, sf) == {frame}
TagOutcomes(frame, sf) ==
    IF sf # PyNone THEN TagsWithGroup(frame, sf) ELSE {frame}

\* how a call ends: with an exception, or with a value
Fails(op, exc) == ret' = Call(op, exc, NoValue)
Returns(op, value) == ret' = Call(op, "none", value)

\* load_data with the flag raised before the group column is attached
LoadBodyFlagFirst(Xa, ya, sfa) ==
         LET sf == SensitiveNormalised(sfa)
             X1 == FromNative(Xa, FALSE, FALSE, FALSE)
             y1 == FromNative(ya, FALSE, TRUE, FALSE)
             t1 == LabelFrame(y1)
         IN  IF Raised(sf)
             THEN /\ Fails("load_data", sf.exc)
                  /\ UNCHANGED <<attrs, loaded_from>>
             ELSE IF Raised(t1)
             THEN /\ Fails("load_data", t1.exc)
                  /\ X' = X1
                  /\ _y' = y1
                  /\ UNCHANGED <<cls, reduction_loss, data_loaded, tags, _gamma_descr, loaded_from>>
             ELSE \E t2 \in TagOutcomes(t1, sf) :
                  IF Raised(t2)
                  THEN /\ Fails("load_data", t2.exc)
                       /\ X' = X1
                       /\ _y' = y1
                       /\ tags' = t1
                       /\ data_loaded' = TRUE
                       /\ UNCHANGED <<cls, reduction_loss, _gamma_descr, loaded_from>>
                  ELSE /\ Returns("load_data", PyNone)
                       /\ X' = X1
                       /\ _y' = y1
                       /\ tags' = t2
                       /\ data_loaded' = TRUE
                       /\ _gamma_descr' = PyNone
                       /\ loaded_from' = [X |-> Xa, y |-> ya, sensitive_features |-> sfa]
                       /\ UNCHANGED <<cls, reduction_loss>>

\* lines 49-60, for one choice of the arguments.  Each attribute is assigned
\* where the code assigns it, so a call that raises keeps what was assigned
\* before the raise.  The print of line 56 changes nothing.
LoadBody(Xa, ya, sfa) ==
         LET sf == SensitiveNormalised(sfa)
             X1 == FromNative(Xa, FALSE, FALSE, FALSE)
             y1 == FromNative(ya, FALSE, TRUE, FALSE)
             t1 == LabelFrame(y1)
         IN  IF Raised(sf)
             THEN /\ Fails("load_data", sf.exc)
                  /\ UNCHANGED <<attrs, loaded_from>>
             ELSE IF Raised(t1)
             THEN /\ Fails("load_data", t1.exc)
                  /\ X' = X1
                  /\ _y' = y1
                  /\ UNCHANGED <<cls, reduction_loss, data_loaded, tags, _gamma_descr, loaded_from>>
             ELSE \E t2 \in TagOutcomes(t1, sf) :
                  IF Raised(t2)
                  THEN /\ Fails("load_data", t2.exc)
                       /\ X' = X1
                       /\ _y' = y1
                       /\ tags' = t1
                       /\ UNCHANGED <<cls, reduction_loss, data_loaded, _gamma_descr, loaded_from>>
                  ELSE /\ Returns("load_data", PyNone)
                       /\ X' = X1
                       /\ _y' = y1
                       /\ tags' = t2
                       /\ data_loaded' = TRUE
                       /\ _gamma_descr' = PyNone
                       /\ loaded_from' = [X |-> Xa, y |-> ya, sensitive_features |-> sfa]
                       /\ UNCHANGED <<cls, reduction_loss>>

\* load_data with the assertion weakened to a silent return
LoadDataSilent ==
    IF ~LoadAllowed
    THEN /\ Returns("load_data", PyNone)
         /\ UNCHANGED <<attrs, loaded_from>>
    ELSE \E Xa \in FeatureInputs, ya \in LabelInputs, sfa \in SensitiveInputs :
            LoadBody(Xa, ya, sfa)

\* load_data with a refused call clearing the flag
LoadDataClearsFlag ==
    IF ~LoadAllowed
    THEN /\ Fails("load_data", "AssertionError")
         /\ data_loaded' = FALSE
         /\ UNCHANGED <<cls, reduction_loss, X, _y, tags, _gamma_descr, loaded_from>>
    ELSE \E Xa \in FeatureInputs, ya \in LabelInputs, sfa \in SensitiveInputs :
            LoadBody(Xa, ya, sfa)

\* The assertion of line 47 is evaluated before any argument is read: the
\* refused call is the same step whatever the arguments are.
LoadData ==
    IF ~LoadAllowed
    THEN /\ Fails("load_data", "AssertionError")
         /\ UNCHANGED <<attrs, loaded_from>>
    ELSE \E Xa \in FeatureInputs, ya \in LabelInputs, sfa \in SensitiveInputs :
            LoadBody(Xa, ya, sfa)

(***************************************************************************)
(* Moment._to_native_everything                                            *)
(***************************************************************************)
ToNativeEverything ==
    IF X = Absent
    THEN /\ Fails("_to_native_everything", "AttributeError")
         /\ UNCHANGED <<attrs, loaded_from>>
    ELSE IF tags = Absent
    THEN /\ Fails("_to_native_everything", "AttributeError")
         /\ X' = ToNative(X)
         /\ _y' = ToNative(_y)
         /\ UNCHANGED <<cls, reduction_loss, data_loaded, tags, _gamma_descr, loaded_from>>
    ELSE /\ Returns("_to_native_everything", PyNone)
         /\ X' = ToNative(X)
         /\ _y' = ToNative(_y)
         /\ tags' = ToNative(tags)
         /\ UNCHANGED <<cls, reduction_loss, data_loaded, _gamma_descr, loaded_from>>

(***************************************************************************)
(* Moment.total_samples                                                    *)
(***************************************************************************)
\* self.X.shape[0]
total_samples == Shape0(X)

TotalSamples ==
    /\ IF X = Absent
       THEN Fails("total_samples", "AttributeError")
       ELSE Returns("total_samples", PyInt(total_samples))
    /\ UNCHANGED <<attrs, loaded_from>>

(***************************************************************************)
(* Moment.gamma, bound, project_lambda, signed_weights                     *)
(***************************************************************************)
\* what the body of each of the four methods raises
AbstractRaises == "NotImplementedError"

\* gamma answering with a default in place of the signal
GammaDefault(predictor) ==
    /\ Returns("gamma", PyInt(0))
    /\ UNCHANGED <<attrs, loaded_from>>

Gamma(predictor) ==
    /\ Fails("gamma", AbstractRaises)
    /\ UNCHANGED <<attrs, loaded_from>>

Bound ==
    /\ Fails("bound", AbstractRaises)
    /\ UNCHANGED <<attrs, loaded_from>>

ProjectLambda(lambda_vec) ==
    /\ Fails("project_lambda", AbstractRaises)
    /\ UNCHANGED <<attrs, loaded_from>>

SignedWeights(lambda_vec) ==
    /\ Fails("signed_weights", AbstractRaises)
    /\ UNCHANGED <<attrs, loaded_from>>

(***************************************************************************)
(* GroupFeature.__init__                                                   *)
(***************************************************************************)
_SERIES_NAME_NOT_STRING_HEAD == <<"Series name must be a string. Value '">>
_SERIES_NAME_NOT_STRING_MID == <<"' was of type ">>

DigitChar(d) == <<"0", "1", "2", "3", "4", "5", "6", "7", "8", "9">>[d + 1]

\* the decimal digits of a natural number
RECURSIVE Digits(_)
Digits(n) == IF n < 10 THEN <<DigitChar(n)>> ELSE Digits(n \div 10) \o <<DigitChar(n % 10)>>

\* str(v), as "{0}".format(v) writes it
Str(v) ==
    IF v.t = "str" THEN v.v
    ELSE IF v.t = "int" THEN Digits(v.v)
    ELSE IF v.t = "bool" THEN (IF v.v THEN <<"T", "r", "u", "e">> ELSE <<"F", "a", "l", "s", "e">>)
    ELSE <<"N", "o", "n", "e">>

\* str(type(v))
TypeRepr(v) ==
    IF v.t = "str" THEN <<"<class 'str'>">>
    ELSE IF v.t = "int" THEN <<"<class 'int'>">>
    ELSE IF v.t = "bool" THEN <<"<class 'bool'>">>
    ELSE <<"<class 'NoneType'>">>

\* "{0}{1}".format(base_name, index)
DefaultName(base_name, index) == PyStr(base_name \o Str(PyInt(index)))

\* _SERIES_NAME_NOT_STRING.format(name, type(name))
NotStringMessage(name) ==
    _SERIES_NAME_NOT_STRING_HEAD \o Str(name) \o _SERIES_NAME_NOT_STRING_MID \o TypeRepr(name)

\* lines 57-61: feature_vector.to_pandas() for a narwhals Series, else as given
RawFeature(feature_vector) ==
    IF feature_vector.t = "nw.Series" THEN feature_vector.native ELSE feature_vector

\* the order numpy sorts the group values in
GroupRank(g) == IF g = "a" THEN 1 ELSE 2

\* np.unique(values): the distinct values, sorted
Unique(data) ==
    LET S == {data[i] : i \in 1..Len(data)}
        below(g) == Cardinality({h \in S : GroupRank(h) < GroupRank(g)})
    IN  [k \in 1..Cardinality(S) |-> CHOOSE g \in S : below(g) = k - 1]

\* the name resolved with a non-string intrinsic name coerced by str()
ResolveNameCoerced(base_name, raw, index, name) ==
    IF name # PyNone THEN name
    ELSE IF raw.t = "pd.Series" /\ raw.name # PyNone THEN PyStr(Str(raw.name))
    ELSE DefaultName(base_name, index)

\* the name resolved with the intrinsic name tried before the explicit one
ResolveNameIntrinsicFirst(base_name, raw, index, name) ==
    IF raw.t = "pd.Series" /\ raw.name # PyNone
    THEN IF raw.name.t = "str" THEN raw.name ELSE Raise("ValueError")
    ELSE IF name # PyNone THEN name
    ELSE DefaultName(base_name, index)

\* lines 65-76: the name, or the ValueError
ResolveName(base_name, raw, index, name) ==
    IF name # PyNone THEN name
    ELSE IF raw.t = "pd.Series"
    THEN IF raw.name # PyNone
         THEN IF raw.name.t = "str" THEN raw.name ELSE Raise("ValueError")
         ELSE DefaultName(base_name, index)
    ELSE DefaultName(base_name, index)

NotConstructed == [exc |-> "none", msg |-> <<>>, done |-> FALSE]

GroupFeatureInit ==
    /\ gf_args = Absent
    /\ raw_feature_ = Absent
    /\ classes_ = Absent
    /\ name_ = Absent
    /\ gf_ret = NotConstructed

BaseNames == {<<"s", "e", "n", "s", "_">>, <<"c", "f", "_">>}
ExplicitNames == {PyNone, PyStr(<<"g", "e", "n", "d", "e", "r">>)}
IntrinsicNames == {PyNone, PyStr(<<"r", "a", "c", "e">>), PyInt(0), PyInt(12), PyBool(TRUE)}
FeatureVectors ==
    LET series == {PdSeries(n, d) : n \in IntrinsicNames, d \in SeqsUpTo(Groups, MaxLen)}
    IN  series \cup {NwSeries(s) : s \in series}
               \cup {NdArray(d) : d \in SeqsUpTo(Groups, MaxLen)}

\* The constructor runs once on a new instance.  self.name_ holds the default
\* name when the ValueError is raised (line 65 has run, line 71 has not).
Construct(base_name, feature_vector, index, name) ==
    /\ gf_ret = NotConstructed
    /\ LET raw == RawFeature(feature_vector)
           resolved == ResolveName(base_name, raw, index, name)
       IN  /\ gf_args' = [base_name |-> base_name, feature_vector |-> feature_vector,
                          index |-> index, name |-> name]
           /\ raw_feature_' = raw
           /\ classes_' = Unique(raw.data)
           /\ IF Raised(resolved)
              THEN /\ name_' = DefaultName(base_name, index)
                   /\ gf_ret' = [exc |-> resolved.exc, msg |-> NotStringMessage(raw.name),
                                 done |-> TRUE]
              ELSE /\ name_' = resolved
                   /\ gf_ret' = [exc |-> "none", msg |-> <<>>, done |-> TRUE]

(***************************************************************************)
(* The specifications: one Moment instance under every sequence of calls,  *)
(* and one GroupFeature under construction.                                *)
(***************************************************************************)
Init == MomentInit /\ GroupFeatureInit

Next ==
    \/ LoadData /\ UNCHANGED gf_vars
    \/ ToNativeEverything /\ UNCHANGED gf_vars
    \/ TotalSamples /\ UNCHANGED gf_vars
    \/ \E predictor \in Predictors : Gamma(predictor) /\ UNCHANGED gf_vars
    \/ Bound /\ UNCHANGED gf_vars
    \/ \E lambda_vec \in LambdaVecs : ProjectLambda(lambda_vec) /\ UNCHANGED gf_vars
    \/ \E lambda_vec \in LambdaVecs : SignedWeights(lambda_vec) /\ UNCHANGED gf_vars

Spec == Init /\ [][Next]_vars

InitGF ==
    /\ MomentInit
    /\ cls = "Moment"
    /\ GroupFeatureInit

NextGF ==
    \E base_name \in BaseNames, feature_vector \in FeatureVectors,
       index \in 0..MaxIndex, name \in ExplicitNames :
        Construct(base_name, feature_vector, index, name) /\ UNCHANGED moment_vars

SpecGF == InitGF /\ [][NextGF]_vars


(***************************************************************************)
(* Vocabulary of the properties.                                           *)
(***************************************************************************)
\* what a stored object holds, whichever wrapper it is in
Content(v) == IF v.t \in {"nw.Series", "nw.DataFrame"} THEN v.native ELSE v

TagColumns == Content(tags).columns
TagRows == Len(Content(tags).data[1])
HasTagColumn(name) == \E k \in 1..Len(TagColumns) : TagColumns[k] = name
TagColumn(name) ==
    Content(tags).data[CHOOSE k \in 1..Len(TagColumns) : TagColumns[k] = name]

\* the row count of a feature table as the caller passed it
InputRows(features) ==
    IF features.t = "pd.DataFrame" THEN Len(features.data[1]) ELSE Len(features.data)

AbstractOps == {"gamma", "bound", "project_lambda", "signed_weights"}

\* piece occurs in text
Mentions(text, piece) ==
    \E i \in 1..(Len(text) - Len(piece) + 1) : SubSeq(text, i, i + Len(piece) - 1) = piece

\* the name a feature vector carries, None when it carries none
IntrinsicName(fv) ==
    IF fv.t = "pd.Series" THEN fv.name
    ELSE IF fv.t = "nw.Series" THEN fv.native.name
    ELSE PyNone

BadIntrinsicName(fv) == IntrinsicName(fv).t \notin {"None", "str"}

(***************************************************************************)
(* The properties.                                                         *)
(***************************************************************************)
\* C1: a load_data call on a loaded instance raises the life-cycle error
\* (the AssertionError of line 47) and leaves data_loaded, X, _y, tags and
\* _gamma_descr exactly as the successful call left them, whatever the
\* arguments of the second call are.
C1_SecondLoadRefused ==
    [][(data_loaded /\ ret'.op = "load_data")
          => /\ ret'.exc = "AssertionError"
             /\ UNCHANGED <<data_loaded, X, _y, tags, _gamma_descr, loaded_from>>]_vars

C1_Witness ==
    /\ data_loaded
    /\ ret = Call("load_data", "AssertionError", NoValue)
    /\ loaded_from.sensitive_features # PyNone

\* C2: data_loaded is false on construction, for each of the three classes,
\* and no call ever takes it from true back to false; so it goes from false
\* to true at most once.
C2_LoadedIsTerminal ==
    /\ data_loaded = FALSE
    /\ [][data_loaded => data_loaded']_vars

C2_Witness ==
    /\ data_loaded
    /\ cls = "LossMoment"
    /\ ret = Call("load_data", "AssertionError", NoValue)

\* C3: once load_data(features, labels, sensitive_features=s) has returned,
\* with N feature rows, N labels and N sensitive values, total_samples is N,
\* tags has N rows, and row i of tags holds s[i] under group_id and
\* labels[i] under label.
C3_TagsAligned ==
    (/\ data_loaded
     /\ loaded_from.sensitive_features # PyNone
     /\ Len(loaded_from.y.data) = InputRows(loaded_from.X)
     /\ Len(loaded_from.sensitive_features.data) = InputRows(loaded_from.X))
       => LET N == InputRows(loaded_from.X)
          IN  /\ total_samples = N
              /\ TagRows = N
              /\ HasTagColumn(_GROUP_ID)
              /\ HasTagColumn(_LABEL)
              /\ \A i \in 1..N :
                    /\ TagColumn(_GROUP_ID)[i] = loaded_from.sensitive_features.data[i]
                    /\ TagColumn(_LABEL)[i] = loaded_from.y.data[i]

C3_Witness ==
    /\ data_loaded
    /\ ret = Call("load_data", "none", PyNone)
    /\ loaded_from.X.t = "ndarray"
    /\ loaded_from.y.data = <<0, 1>>
    /\ loaded_from.sensitive_features = PdSeries(PyNone, <<"b", "a">>)

\* C4: after load_data without sensitive features tags has the single column
\* label; tags has a group_id column exactly when sensitive features were
\* given to the call that loaded the instance, and never on an instance that
\* is not loaded.
C4_GroupColumnOnlyWhenGiven ==
    /\ data_loaded =>
          /\ loaded_from.sensitive_features = PyNone => TagColumns = <<_LABEL>>
          /\ HasTagColumn(_GROUP_ID) <=> loaded_from.sensitive_features # PyNone
    /\ (~data_loaded /\ tags # Absent) => TagColumns = <<_LABEL>>

C4_Witness ==
    /\ data_loaded
    /\ ret = Call("load_data", "none", PyNone)
    /\ loaded_from.sensitive_features = PyNone
    /\ TagColumns = <<_LABEL>>

\* C5, as claimed: a load_data call on an instance that is not loaded either
\* returns with X, _y and tags set and data_loaded true, or raises with
\* data_loaded false and X, _y and tags as they were before the call.
C5_NoPartialFailure ==
    [][(~data_loaded /\ ret'.op = "load_data")
          => \/ /\ ret'.exc = "none"
                /\ data_loaded'
                /\ X' # Absent /\ _y' # Absent /\ tags' # Absent
             \/ /\ ret'.exc # "none"
                /\ ~data_loaded'
                /\ UNCHANGED <<X, _y, tags>>]_vars

\* C5, amended: the call either returns with X, _y and tags set and
\* data_loaded true, or raises with data_loaded false.  When it raises, X, _y
\* and tags are as before only for the TypeError of line 51 (sensitive
\* features that are no Series); a failure of line 55 (labels that are no
\* Series) leaves X and _y overwritten and tags as before; a failure of line
\* 58 (a group column of the wrong length) leaves X and _y overwritten and
\* tags holding the new label column alone.
C5_FailureKeepsUnloaded ==
    [][(~data_loaded /\ ret'.op = "load_data")
          => \/ /\ ret'.exc = "none"
                /\ data_loaded'
                /\ X' # Absent /\ _y' # Absent /\ tags' # Absent
             \/ /\ ret'.exc = "TypeError"
                /\ ~data_loaded'
                /\ UNCHANGED <<X, _y, tags, _gamma_descr>>
             \/ /\ ret'.exc = "AttributeError"
                /\ ~data_loaded'
                /\ X' # Absent /\ _y' # Absent /\ _y'.t # "nw.Series"
                /\ UNCHANGED <<tags, _gamma_descr>>
             \/ /\ ret'.exc = "ShapeError"
                /\ ~data_loaded'
                /\ X' # Absent /\ _y'.t = "nw.Series"
                /\ tags' = NwDataFrame(PdDataFrame(<<_LABEL>>, <<_y'.native.data>>))
                /\ UNCHANGED _gamma_descr]_vars

C5_Witness ==
    /\ ~data_loaded
    /\ ret = Call("load_data", "ShapeError", NoValue)
    /\ X # Absent
    /\ tags # Absent

\* C6: gamma, bound, project_lambda and signed_weights raise
\* NotImplementedError for every argument, on each of the three classes,
\* loaded or not, and leave data_loaded, X, _y and tags as they were.
C6_AbstractOpsNotImplemented ==
    [][(ret'.op \in AbstractOps)
          => /\ ret'.exc = "NotImplementedError"
             /\ ret'.value = NoValue
             /\ UNCHANGED <<data_loaded, X, _y, tags>>]_vars

C6_Witness ==
    /\ data_loaded
    /\ cls = "ClassificationMoment"
    /\ ret = Call("gamma", "NotImplementedError", NoValue)

C8_NamePriority ==
    (gf_ret.done /\ gf_ret.exc = "none")
       => /\ name_ = IF gf_args.name # PyNone THEN gf_args.name
                     ELSE IF IntrinsicName(gf_args.feature_vector).t = "str"
                          THEN IntrinsicName(gf_args.feature_vector)
                          ELSE PyStr(gf_args.base_name \o Digits(gf_args.index))
          /\ (/\ gf_args.name = PyNone
              /\ IntrinsicName(gf_args.feature_vector) = PyNone
              /\ gf_args.base_name = <<"s", "e", "n", "s", "_">>
              /\ gf_args.index = 2)
                => name_ = PyStr(<<"s", "e", "n", "s", "_", "2">>)
          /\ (/\ gf_args.name = PyNone
              /\ IntrinsicName(gf_args.feature_vector) = PyNone
              /\ gf_args.base_name = <<"c", "f", "_">>
              /\ gf_args.index = 10)
                => name_ = PyStr(<<"c", "f", "_", "1", "0">>)

C8_Witness ==
    /\ gf_ret.done
    /\ gf_ret.exc = "none"
    /\ gf_args.name = PyStr(<<"g", "e", "n", "d", "e", "r">>)
    /\ IntrinsicName(gf_args.feature_vector) = PyStr(<<"r", "a", "c", "e">>)
    /\ name_ = PyStr(<<"g", "e", "n", "d", "e", "r">>)

\* C9, as claimed: on a loaded instance total_samples, the number of rows of
\* tags and the number of labels are one and the same number.
C9_CountsAgree ==
    data_loaded => /\ total_samples = TagRows
                   /\ total_samples = Len(Content(_y).data)

\* C9, amended: on a loaded instance tags has as many rows as there are
\* labels, which is the length of the label vector that was passed, and
\* total_samples is the row count of the feature table that was passed;
\* load_data does not compare the two, and the three counts agree exactly
\* when features and labels were passed with the same length.
C9_CountsFollowInputs ==
    data_loaded => /\ TagRows = Len(Content(_y).data)
                   /\ Len(Content(_y).data) = Len(loaded_from.y.data)
                   /\ total_samples = InputRows(loaded_from.X)
                   /\ (total_samples = TagRows)
                         <=> (InputRows(loaded_from.X) = Len(loaded_from.y.data))

C9_Witness ==
    /\ data_loaded
    /\ total_samples = 2
    /\ TagRows = 1
    /\ HasTagColumn(_GROUP_ID)

\* C10: on a loaded instance no call changes what X, _y and tags hold
\* (_to_native_everything swaps the narwhals wrappers for the native objects
\* they wrap); and the load_data call that loads the instance sets
\* _gamma_descr to None and leaves the remaining attributes (the class,
\* reduction_loss) alone.
C10_FrozenOnceLoaded ==
    [][/\ data_loaded => /\ Content(X') = Content(X)
                         /\ Content(_y') = Content(_y)
                         /\ Content(tags') = Content(tags)
       /\ (~data_loaded /\ data_loaded') => /\ ret'.op = "load_data"
                                            /\ _gamma_descr' = PyNone
                                            /\ UNCHANGED <<cls, reduction_loss>>]_vars

C10_Witness ==
    /\ data_loaded
    /\ ret = Call("_to_native_everything", "none", PyNone)
    /\ X.t = "pd.DataFrame"
    /\ tags.t = "pd.DataFrame"
    /\ _gamma_descr = PyNone

=============================================================================
